---- MODULE Spec2Model ----
(***************************************************************************)
(* A model of crypto-screener's Bitcoin astrology engine (astro_calc.py)   *)
(* and of the way its lazily created ephemeris table is reached.           *)
(*                                                                         *)
(* Representation.  A longitude is an integer number of millidegrees       *)
(* (0.001 degree), so 360 degrees is 360000.  An instant is an integer     *)
(* number of half-day ticks since 2000-01-01 12:00 UTC (J2000), so that    *)
(* timedelta.days is tick \div 2.  The arithmetic of the model is exact    *)
(* (the code works in binary floating point): table longitudes are drawn   *)
(* from multiples of 4 millidegrees and row gaps from 0, 1, 2 or 4 ticks,  *)
(* so every interpolated value is a whole number of millidegrees.          *)
(***************************************************************************)
EXTENDS Integers, Sequences, FiniteSets, TLC

VARIABLES
    csv_exists,     \* CSV_PATH.exists()
    csv_rows,       \* the rows of the CSV file, in file order
    _ephemeris,     \* the module global: None or an EphemerisData instance
    op,             \* the call last made by the single-threaded program
    arg,            \* its argument: a datetime, or current_positions
    ret,            \* what it returned (or Raised)
    natal,          \* find_upcoming_transits: natal_positions
    now,            \* find_upcoming_transits: datetime.now()
    days_ahead,     \* find_upcoming_transits: days_ahead
    day_offset,     \* find_upcoming_transits: the loop variable
    aspects,        \* find_upcoming_transits: the aspects of the day last sampled
    upcoming,       \* find_upcoming_transits: the list being built
    fpc,            \* find_upcoming_transits: position in the function
    forecast,       \* find_upcoming_transits: the returned list
    tpc,            \* concurrent callers of get_ephemeris: position of each
    tlocal,         \* the instance each concurrent caller has constructed
    tret,           \* what each concurrent caller returned
    loads           \* how many times load_csv has run to completion

vars == <<csv_exists, csv_rows, _ephemeris, op, arg, ret, natal, now,
          days_ahead, day_offset, aspects, upcoming, fpc, forecast,
          tpc, tlocal, tret, loads>>

threadVars == <<tpc, tlocal, tret>>

forecastVars == <<natal, now, days_ahead, day_offset, aspects, upcoming,
                  fpc, forecast>>

callVars == <<op, arg, ret>>

-----------------------------------------------------------------------------
(* Values *)

None == [none |-> TRUE]

Raised == [raised |-> "FileNotFoundError"]

Deg(d) == d * 1000

Min(S) == CHOOSE x \in S : \A y \in S : x <= y

Abs(x) == IF x < 0 THEN -x ELSE x

\* The nine tabulated planets, in the order get_positions lists them.
TablePlanets ==
    <<"Sun", "Moon", "Mercury", "Venus", "Mars",
      "Jupiter", "Saturn", "Uranus", "Neptune">>

\* The seven planets that carry a retrograde flag in the table.
RetroPlanets ==
    <<"Mercury", "Venus", "Mars", "Jupiter", "Saturn", "Uranus", "Neptune">>

Range(s) == {s[i] : i \in 1..Len(s)}

RetroKey(planet) == planet \o "_retro"

-----------------------------------------------------------------------------
(* Utility functions *)

angle_difference(angle1, angle2) ==
    LET diff == Abs(angle1 - angle2)
    IN  IF diff > Deg(180) THEN Deg(360) - diff ELSE diff

-----------------------------------------------------------------------------
(* EphemerisData.get_positions *)

\* The range check of get_positions: dt lies within the table.
InTableRange(data, dt) ==
    ~(dt < data[1].datetime \/ dt > data[Len(data)].datetime)

\* The indices the loop "for i in range(len(self.data) - 1)" visits.
LoopIndices(data) == 1..(Len(data) - 1)

\* The indices at which the loop's test holds.
Bracketing(data, dt) ==
    {i \in LoopIndices(data) :
        data[i].datetime <= dt /\ dt <= data[i + 1].datetime}

\* factor = elapsed_seconds / total_seconds if total_seconds > 0 else 0,
\* as the pair <<numerator, denominator>>.
Factor(d1, d2, dt) ==
    LET total_seconds   == d2.datetime - d1.datetime
        elapsed_seconds == dt - d1.datetime
    IN  IF total_seconds > 0 THEN <<elapsed_seconds, total_seconds>>
                             ELSE <<0, 1>>

\* Unwrap without the wraparound handling.
Unwrap_NoWraparound(lon1, lon2) == <<lon1, lon2>>

\* The 360 degree wraparound: the pair <<lon1, lon2>> after adjustment.
Unwrap(lon1, lon2) ==
    IF Abs(lon2 - lon1) > Deg(180)
    THEN IF lon2 < lon1 THEN <<lon1, lon2 + Deg(360)>>
                        ELSE <<lon1 + Deg(360), lon2>>
    ELSE <<lon1, lon2>>

\* lon = lon1 + (lon2 - lon1) * factor; result = lon % 360.
InterpolateLon(lon1, lon2, f) ==
    LET u   == Unwrap(lon1, lon2)
        lon == u[1] + ((u[2] - u[1]) * f[1]) \div f[2]
    IN  lon % Deg(360)

\* Closest taking the earlier row at a factor of exactly 0.5 too.
Closest_HalfToEarlier(d1, d2, f) == IF 2 * f[1] <= f[2] THEN d1 ELSE d2

\* closest = d1 if factor < 0.5 else d2
Closest(d1, d2, f) == IF 2 * f[1] < f[2] THEN d1 ELSE d2

\* The result dictionary built for the bracketing rows d1, d2.
Interpolated(d1, d2, dt) ==
    LET f       == Factor(d1, d2, dt)
        closest == Closest(d1, d2, f)
        keys    == {"datetime"} \cup Range(TablePlanets)
                     \cup {RetroKey(p) : p \in Range(RetroPlanets)}
    IN  [k \in keys |->
            IF k = "datetime" THEN dt
            ELSE IF k \in Range(TablePlanets)
                 THEN InterpolateLon(d1[k], d2[k], f)
                 ELSE closest[k]]

get_positions(data, dt) ==
    IF Len(data) = 0 THEN None
    ELSE IF ~InTableRange(data, dt) THEN None
    ELSE LET hits == Bracketing(data, dt)
         IN  IF hits = {} THEN None
             ELSE LET i == Min(hits)
                  IN  Interpolated(data[i], data[i + 1], dt)

-----------------------------------------------------------------------------
(* Fallback: simplified calculations *)

\* (dt - datetime(2000, 1, 1, 12, 0, 0)).days: whole days, rounded down.
days_since_j2000(dt) == dt \div 2

\* years * 1.5 with years = days / 365.25, in millidegrees: days * 6000 / 1461
\* (rounded down to the millidegree).
calculate_pluto_position(dt) ==
    (Deg(251) + (6000 * days_since_j2000(dt)) \div 1461) % Deg(360)

\* planet |-> <<longitude at J2000, mean motion per day>>, in millidegrees;
\* the mean motion as <<whole part, numerator, denominator of the rest>>.
MeanElements ==
    [Sun     |-> <<280460, <<  985, 6474, 10000>> >>,
     Moon    |-> <<218316, <<13176,  396,  1000>> >>,
     Mercury |-> <<252250, << 4092,  338,  1000>> >>,
     Venus   |-> <<181980, << 1602,  131,  1000>> >>,
     Mars    |-> <<355430, <<  524,   39,  1000>> >>,
     Jupiter |-> << 34350, <<   83,   56,  1000>> >>,
     Saturn  |-> << 50080, <<   33,  459,  1000>> >>,
     Uranus  |-> <<314050, <<   11,  733,  1000>> >>,
     Neptune |-> <<304880, <<    5,  981,  1000>> >>]

\* (base + rate * days_since_j2000) % 360, rounded down to the millidegree.
MeanLongitude(planet, dt) ==
    LET e == MeanElements[planet]
        d == days_since_j2000(dt)
        r == e[2]
    IN  (e[1] + r[1] * d + (r[2] * d) \div r[3]) % Deg(360)

AllPlanets == TablePlanets \o <<"Pluto">>

calculate_fallback_positions(dt) ==
    [planet \in Range(AllPlanets) |->
        [longitude  |-> IF planet = "Pluto" THEN calculate_pluto_position(dt)
                                            ELSE MeanLongitude(planet, dt),
         planet     |-> planet,
         retrograde |-> FALSE]]

-----------------------------------------------------------------------------
(* The global ephemeris instance *)

\* EphemerisData(csv_path): load_csv raises when the file does not exist,
\* and otherwise appends every row of the file to self.data.
EphemerisData(exists, rows, id) ==
    IF ~exists THEN Raised ELSE [id |-> id, data |-> rows]

\* get_ephemeris() run without interruption, from the global g: the pair
\* <<the global afterwards, the value returned or Raised>>.
get_ephemeris(g, exists, rows, id) ==
    IF g = None
    THEN LET made == EphemerisData(exists, rows, id)
         IN  IF made = Raised THEN <<None, Raised>> ELSE <<made, made>>
    ELSE <<g, g>>

-----------------------------------------------------------------------------
(* get_all_positions *)

\* TabulatedEntry giving every planet a flag: Mercury's where it has none.
TabulatedEntry_BorrowedFlag(ephem_data, planet) ==
    [longitude  |-> ephem_data[planet],
     planet     |-> planet,
     retrograde |-> IF RetroKey(planet) \in DOMAIN ephem_data
                    THEN ephem_data[RetroKey(planet)]
                    ELSE ephem_data[RetroKey("Mercury")]]

\* The entry built for one tabulated planet from the lookup's result.
TabulatedEntry(ephem_data, planet) ==
    IF RetroKey(planet) \in DOMAIN ephem_data
    THEN [longitude  |-> ephem_data[planet],
          planet     |-> planet,
          retrograde |-> ephem_data[RetroKey(planet)]]
    ELSE [longitude |-> ephem_data[planet], planet |-> planet]

\* PlutoEntry advancing 1.5 degrees per day instead of per year.
PlutoEntry_PerDay(dt) ==
    [longitude  |-> (Deg(251) + 1500 * days_since_j2000(dt)) % Deg(360),
     planet     |-> "Pluto",
     retrograde |-> FALSE]

\* The entry for Pluto when the table has data.
PlutoEntry(dt) ==
    [longitude  |-> calculate_pluto_position(dt),
     planet     |-> "Pluto",
     retrograde |-> FALSE]

\* The body of get_all_positions once get_ephemeris() has returned.
PositionsFrom(ephemeris, dt) ==
    LET ephem_data == get_positions(ephemeris.data, dt)
    IN  IF ephem_data # None
        THEN [planet \in Range(AllPlanets) |->
                IF planet = "Pluto" THEN PlutoEntry(dt)
                                    ELSE TabulatedEntry(ephem_data, planet)]
        ELSE calculate_fallback_positions(dt)

\* get_all_positions(dt) from the global g: <<the global afterwards, the
\* positions returned or Raised>>.
get_all_positions(g, exists, rows, id, dt) ==
    LET e == get_ephemeris(g, exists, rows, id)
    IN  IF e[2] = Raised THEN <<e[1], Raised>>
                         ELSE <<e[1], PositionsFrom(e[2], dt)>>

-----------------------------------------------------------------------------
(* Aspect calculations *)

\* ASPECTS, in the order of the dictionary: name, angle, maximal orb.
ASPECTS ==
    <<[name |-> "Conjunction", target_angle |-> Deg(0),   max_orb |-> Deg(8)],
      [name |-> "Sextile",     target_angle |-> Deg(60),  max_orb |-> Deg(6)],
      [name |-> "Square",      target_angle |-> Deg(90),  max_orb |-> Deg(7)],
      [name |-> "Trine",       target_angle |-> Deg(120), max_orb |-> Deg(8)],
      [name |-> "Opposition",  target_angle |-> Deg(180), max_orb |-> Deg(8)]>>

NATAL_POINTS == {"Sun", "Moon"}

\* round(x, 2) of a non-negative x: to the nearest hundredth of a degree, a
\* tie going to the even hundredth.
Round2(x) ==
    LET q == x \div 10
        r == x % 10
    IN  IF r < 5 THEN 10 * q
        ELSE IF r > 5 THEN 10 * (q + 1)
        ELSE IF q % 2 = 0 THEN 10 * q ELSE 10 * (q + 1)

\* check_aspect accepting only orbs strictly inside the tolerance.
check_aspect_Strict(lon1, lon2, a) ==
    LET diff == angle_difference(lon1, lon2)
        orb  == Abs(diff - a.target_angle)
    IN  <<orb < a.max_orb, orb>>

\* check_aspect(lon1, lon2, aspect_name), for the catalog entry a:
\* <<is_aspect, orb>>.
check_aspect(lon1, lon2, a) ==
    LET diff == angle_difference(lon1, lon2)
        orb  == Abs(diff - a.target_angle)
    IN  <<orb <= a.max_orb, orb>>

\* The keys of a positions dictionary in iteration (insertion) order.
ItemsOrder(positions) ==
    SelectSeq(AllPlanets, LAMBDA planet : planet \in DOMAIN positions)

\* The aspect dictionary appended for one match.
AspectFound(transit_planet, natal_planet, a, orb, transit_lon, natal_lon) ==
    [transit_planet    |-> transit_planet,
     natal_planet      |-> natal_planet,
     aspect            |-> a.name,
     orb               |-> Round2(orb),
     transit_longitude |-> Round2(transit_lon),
     natal_longitude   |-> Round2(natal_lon)]

\* find_aspects_to_natal: the three nested loops, flattened in their order.
find_aspects_to_natal(current_positions, natal_positions) ==
    LET ts == ItemsOrder(current_positions)
        ns == ItemsOrder(natal_positions)
        nN == Len(ns)
        nA == Len(ASPECTS)
        combos ==
            [n \in 1..(Len(ts) * nN * nA) |->
                LET t  == ts[((n - 1) \div (nN * nA)) + 1]
                    np == ns[(((n - 1) \div nA) % nN) + 1]
                    a  == ASPECTS[((n - 1) % nA) + 1]
                    tl == current_positions[t].longitude
                    nl == natal_positions[np].longitude
                    c  == check_aspect(tl, nl, a)
                IN  [is_aspect |-> c[1],
                     found     |-> AspectFound(t, np, a, c[2], tl, nl)]]
        hits == SelectSeq(combos, LAMBDA c : c.is_aspect)
    IN  [i \in 1..Len(hits) |-> hits[i].found]

-----------------------------------------------------------------------------
(* Transit forecasting *)

\* The slice bound of "unique_upcoming[:10]".
TopN == 10

outer_planets == {"Jupiter", "Saturn", "Uranus", "Neptune", "Pluto"}

major_aspects == {"Conjunction", "Square", "Opposition", "Trine"}

\* The test of the "if" that selects major transits.
IsMajorTransit(aspect) ==
    /\ aspect.transit_planet \in outer_planets
    /\ aspect.natal_planet \in NATAL_POINTS
    /\ aspect.aspect \in major_aspects
    /\ aspect.orb < Deg(2)

\* f"{transit_planet} {aspect} natal {natal_planet}"
TransitText(transit_planet, aspect_name, natal_planet) ==
    transit_planet \o " " \o aspect_name \o " natal " \o natal_planet

\* f"Day +{day_offset}"
DayText(d) == "Day +" \o ToString(d)

\* The calendar day of an instant (days since 2000-01-01), for strftime.
CalendarDay(dt) == (dt + 1) \div 2

\* now + timedelta(days=day_offset)
FutureDate(t, d) == t + 2 * d

\* The entry appended to upcoming for one major transit.
UpcomingEntry(aspect, d, future_date) ==
    [date       |-> DayText(d),
     exact_date |-> CalendarDay(future_date),
     transit    |-> TransitText(aspect.transit_planet, aspect.aspect,
                                aspect.natal_planet),
     orb        |-> aspect.orb]

\* The entries one sampled day appends to upcoming.
DayEntries(found, d, future_date) ==
    LET major == SelectSeq(found, IsMajorTransit)
    IN  [i \in 1..Len(major) |-> UpcomingEntry(major[i], d, future_date)]

RECURSIVE RemoveFrom(_, _, _, _)
\* The loop "for t in upcoming" from index i on, with the set seen and the
\* list unique_upcoming built so far.
RemoveFrom(list, i, seen, unique_upcoming) ==
    IF i > Len(list) THEN unique_upcoming
    ELSE LET key == list[i].transit
         IN  IF key \notin seen
             THEN RemoveFrom(list, i + 1, seen \cup {key},
                             Append(unique_upcoming, list[i]))
             ELSE RemoveFrom(list, i + 1, seen, unique_upcoming)

\* RemoveDuplicates keeping the last entry of every transit instead.
RemoveDuplicates_KeepLast(list) ==
    LET keep == {i \in 1..Len(list) :
                    \A j \in (i + 1)..Len(list) :
                        list[j].transit # list[i].transit}
        idx  == [n \in 1..Len(list) |-> n]
        kept == SelectSeq(idx, LAMBDA i : i \in keep)
    IN  [n \in 1..Len(kept) |-> list[kept[n]]]

\* "Remove duplicates": the first entry of every transit, in list order.
RemoveDuplicates(list) == RemoveFrom(list, 1, {}, <<>>)

\* TopSlice cutting after the eleventh entry.
TopSlice_OffByOne(list) ==
    SubSeq(list, 1, IF Len(list) < TopN + 1 THEN Len(list) ELSE TopN + 1)

\* unique_upcoming[:10]
TopSlice(list) ==
    SubSeq(list, 1, IF Len(list) < TopN THEN Len(list) ELSE TopN)

-----------------------------------------------------------------------------
(* The inputs of the single-threaded program: CSV files and query instants *)

\* The longest table the model loads.
MaxRows == 3

\* The first row's instant: day 9800 after J2000 (2026-10-31 12:00 UTC).
EpochStart == 2 * 9800

\* Gaps between consecutive rows, in ticks (0: a repeated timestamp).
RowGaps == {0, 1, 4}

\* Two rows' worth of longitudes (millidegrees, multiples of 4).  Between
\* them the nine planets cover a plain step (Mars 100 <-> 104), a wrap in
\* each direction (Sun 350 <-> 10, Jupiter 359.996 <-> 0.004), a step of
\* exactly 180 (Mercury 0 <-> 180), steps just beyond 180 (Uranus
\* 0 <-> 180.004, Saturn 90 <-> 270.004) and no step (Neptune).
RowLongitudes ==
    <<[Sun |-> 350000, Moon |->  10000, Mercury |->      0, Venus |-> 180000,
       Mars |-> 100000, Jupiter |-> 359996, Saturn |->  90000,
       Uranus |->      0, Neptune |-> 200000],
      [Sun |->  10000, Moon |-> 350000, Mercury |-> 180000, Venus |->      0,
       Mars |-> 104000, Jupiter |->      4, Saturn |-> 270004,
       Uranus |-> 180004, Neptune |-> 200000]>>

\* The retrograde flags of the k-th of those rows.
RowRetro(k, planet) ==
    CASE k = 1 -> planet \in {"Mercury", "Jupiter"}
      [] k = 2 -> planet \in {"Venus", "Mars", "Jupiter", "Neptune"}
      [] OTHER -> planet \in {"Mercury", "Saturn", "Uranus"}

\* One parsed row of the CSV file, as load_csv stores it (the fields that
\* get_positions reads).
Row(lons, k, t) ==
    [key \in {"datetime"} \cup Range(TablePlanets)
               \cup {RetroKey(p) : p \in Range(RetroPlanets)} |->
        IF key = "datetime" THEN t
        ELSE IF key \in Range(TablePlanets) THEN lons[k][key]
        ELSE \E p \in Range(RetroPlanets) : key = RetroKey(p) /\ RowRetro(k, p)]

RECURSIVE TablesOfLen(_, _, _)
\* The files of n rows, sorted ascending by timestamp, rows drawn from lons
\* and gaps between rows from gaps.
TablesOfLen(lons, gaps, n) ==
    IF n = 0 THEN {<<>>}
    ELSE IF n = 1 THEN {<<Row(lons, k, EpochStart)>> : k \in 1..Len(lons)}
    ELSE {Append(t, Row(lons, k, t[Len(t)].datetime + g)) :
            t \in TablesOfLen(lons, gaps, n - 1), k \in 1..Len(lons),
            g \in gaps}

Tables(lons, gaps) == UNION {TablesOfLen(lons, gaps, n) : n \in 0..MaxRows}

\* Instants asked for: from a tick before the first row to a tick after the
\* last row of the longest table.
QueryTimes == (EpochStart - 1)..(EpochStart + 4 * (MaxRows - 1) + 1)

-----------------------------------------------------------------------------
(* The single-threaded program: calls of the position functions *)

InitIdle ==
    /\ _ephemeris = None
    /\ op = "none" /\ arg = 0 /\ ret = None
    /\ natal = <<>> /\ now = 0 /\ days_ahead = 0 /\ day_offset = 0
    /\ aspects = <<>> /\ upcoming = <<>> /\ fpc = "idle" /\ forecast = <<>>
    /\ tpc = <<>> /\ tlocal = <<>> /\ tret = <<>>
    /\ loads = 0

InitPositions ==
    /\ csv_exists \in BOOLEAN
    /\ csv_rows \in IF csv_exists THEN Tables(RowLongitudes, RowGaps) ELSE {<<>>}
    /\ InitIdle

\* The number of loads after a call that left the global as g.
LoadsAfter(g) == IF _ephemeris = None /\ g # None THEN loads + 1 ELSE loads

\* ephemeris = get_ephemeris()
CallGetEphemeris ==
    LET e == get_ephemeris(_ephemeris, csv_exists, csv_rows, loads + 1)
    IN  /\ _ephemeris' = e[1]
        /\ loads' = LoadsAfter(e[1])
        /\ op' = "get_ephemeris" /\ arg' = 0 /\ ret' = e[2]
        /\ UNCHANGED <<csv_exists, csv_rows, forecastVars, threadVars>>

\* ephemeris.get_positions(dt), on the instance get_ephemeris() returned
CallGetPositions(dt) ==
    /\ _ephemeris # None
    /\ op' = "get_positions" /\ arg' = dt
    /\ ret' = get_positions(_ephemeris.data, dt)
    /\ UNCHANGED <<csv_exists, csv_rows, _ephemeris, loads, forecastVars,
                   threadVars>>

\* get_all_positions(dt)
CallGetAllPositions(dt) ==
    LET r == get_all_positions(_ephemeris, csv_exists, csv_rows, loads + 1, dt)
    IN  /\ _ephemeris' = r[1]
        /\ loads' = LoadsAfter(r[1])
        /\ op' = "get_all_positions" /\ arg' = dt /\ ret' = r[2]
        /\ UNCHANGED <<csv_exists, csv_rows, forecastVars, threadVars>>

NextPositions ==
    \/ CallGetEphemeris
    \/ \E dt \in QueryTimes : CallGetPositions(dt)
    \/ \E dt \in QueryTimes : CallGetAllPositions(dt)

SpecPositions == InitPositions /\ [][NextPositions]_vars

-----------------------------------------------------------------------------
(* find_upcoming_transits, one loop iteration at a time *)

\* The longest forecast window the model runs.
MaxDaysAhead == 3

\* The gap between the rows of the tables the forecasts read: a day.
ForecastGaps == {2}

\* Rows for the forecasts: the outer planets together at 100 degrees, together
\* at 10 degrees, and spread around 102 degrees (1.988, 1.996, 2.000 and 2.004
\* degrees from a natal Sun at 100).
ForecastLongitudes ==
    <<[Sun |-> 100000, Moon |->  40000, Mercury |-> 220000, Venus |-> 280000,
       Mars |->  10000, Jupiter |-> 100000, Saturn |-> 100000,
       Uranus |-> 100000, Neptune |-> 100000],
      [Sun |->  10000, Moon |-> 130000, Mercury |-> 100000, Venus |-> 190000,
       Mars |-> 100000, Jupiter |->  10000, Saturn |->  10000,
       Uranus |->  10000, Neptune |->  10000],
      [Sun |-> 101996, Moon |->      0, Mercury |-> 101988, Venus |->  40000,
       Mars |-> 280000, Jupiter |-> 101988, Saturn |-> 101996,
       Uranus |-> 102000, Neptune |-> 102004]>>

\* A natal chart from its longitudes.
NatalChart(lons) ==
    [planet \in DOMAIN lons |->
        [longitude |-> lons[planet], planet |-> planet, retrograde |-> FALSE]]

\* BITCOIN_GENESIS, 2009-01-03 18:15:05 UTC: day 3290 after J2000.
BITCOIN_GENESIS == 2 * 3290

\* The natal charts forecast against: two made up (the second near Pluto's
\* longitude in 2026) and the program's own, the fallback at the genesis block.
NatalCharts ==
    {NatalChart([Sun |-> 100000, Moon |-> 190000, Mercury |-> 100000]),
     NatalChart([Sun |-> 291000, Moon |-> 110000, Venus |-> 291000]),
     calculate_fallback_positions(BITCOIN_GENESIS)}

\* datetime.now(): a day, or half a day, before the first row.
NowTimes == {EpochStart - 2, EpochStart - 1}

Init ==
    /\ csv_exists \in BOOLEAN
    /\ csv_rows \in IF csv_exists THEN Tables(ForecastLongitudes, ForecastGaps)
                                  ELSE {<<>>}
    /\ InitIdle

\* find_upcoming_transits(natal_positions, days_ahead) is entered.
StartForecast(n, d, t) ==
    /\ fpc = "idle"
    /\ natal' = n /\ days_ahead' = d /\ now' = t
    /\ day_offset' = 1 /\ upcoming' = <<>> /\ aspects' = <<>>
    /\ fpc' = "scan"
    /\ UNCHANGED <<csv_exists, csv_rows, _ephemeris, loads, callVars,
                   forecast, threadVars>>

\* One iteration of "for day_offset in range(1, days_ahead + 1)".
ScanDay ==
    /\ fpc = "scan" /\ day_offset <= days_ahead
    /\ LET future_date == FutureDate(now, day_offset)
           r == get_all_positions(_ephemeris, csv_exists, csv_rows,
                                  loads + 1, future_date)
           found == find_aspects_to_natal(r[2], natal)
       IN  /\ _ephemeris' = r[1]
           /\ loads' = LoadsAfter(r[1])
           /\ IF r[2] = Raised
              THEN /\ fpc' = "raised"
                   /\ UNCHANGED <<aspects, upcoming, day_offset>>
              ELSE /\ aspects' = found
                   /\ upcoming' =
                        upcoming \o DayEntries(found, day_offset, future_date)
                   /\ day_offset' = day_offset + 1
                   /\ fpc' = fpc
    /\ UNCHANGED <<csv_exists, csv_rows, callVars, natal, now, days_ahead,
                   forecast, threadVars>>

\* The loop is over: remove duplicates, return the top 10.
ReturnForecast ==
    /\ fpc = "scan" /\ day_offset > days_ahead
    /\ forecast' = TopSlice(RemoveDuplicates(upcoming))
    /\ fpc' = "done"
    /\ UNCHANGED <<csv_exists, csv_rows, _ephemeris, loads, callVars,
                   natal, now, days_ahead, day_offset, aspects, upcoming,
                   threadVars>>

Next ==
    \/ \E n \in NatalCharts, d \in 0..MaxDaysAhead, t \in NowTimes :
          StartForecast(n, d, t)
    \/ ScanDay
    \/ ReturnForecast

Spec == Init /\ [][Next]_vars

-----------------------------------------------------------------------------
(* get_ephemeris called from several threads of a hosting environment *)

\* The number of concurrent callers.
NumCallers == 2

Callers == 1..NumCallers

\* The gap between the rows of the tables the concurrent callers load.
CallerGaps == {1}

InitConcurrent ==
    /\ csv_exists \in BOOLEAN
    /\ csv_rows \in IF csv_exists THEN Tables(RowLongitudes, CallerGaps)
                                  ELSE {<<>>}
    /\ _ephemeris = None
    /\ loads = 0
    /\ tpc = [t \in Callers |-> "call"]
    /\ tlocal = [t \in Callers |-> None]
    /\ tret = [t \in Callers |-> None]
    /\ op = "none" /\ arg = 0 /\ ret = None
    /\ natal = <<>> /\ now = 0 /\ days_ahead = 0 /\ day_offset = 0
    /\ aspects = <<>> /\ upcoming = <<>> /\ fpc = "idle" /\ forecast = <<>>

\* "if _ephemeris is None:" read by caller t.
TestGlobal(t) ==
    /\ tpc[t] = "call"
    /\ tpc' = [tpc EXCEPT ![t] = IF _ephemeris = None THEN "construct"
                                                      ELSE "return"]
    /\ UNCHANGED <<csv_exists, csv_rows, _ephemeris, loads, tlocal, tret,
                   callVars, forecastVars>>

\* "EphemerisData(CSV_PATH)" run by caller t: the file is loaded into a new
\* instance, or load_csv raises.
Construct(t) ==
    /\ tpc[t] = "construct"
    /\ LET made == EphemerisData(csv_exists, csv_rows, loads + 1)
       IN  IF made = Raised
           THEN /\ tpc' = [tpc EXCEPT ![t] = "raised"]
                /\ tret' = [tret EXCEPT ![t] = Raised]
                /\ UNCHANGED <<tlocal, loads>>
           ELSE /\ tpc' = [tpc EXCEPT ![t] = "assign"]
                /\ tlocal' = [tlocal EXCEPT ![t] = made]
                /\ loads' = loads + 1
                /\ tret' = tret
    /\ UNCHANGED <<csv_exists, csv_rows, _ephemeris, callVars, forecastVars>>

\* "_ephemeris = ..." stored by caller t.
AssignGlobal(t) ==
    /\ tpc[t] = "assign"
    /\ _ephemeris' = tlocal[t]
    /\ tpc' = [tpc EXCEPT ![t] = "return"]
    /\ UNCHANGED <<csv_exists, csv_rows, loads, tlocal, tret, callVars,
                   forecastVars>>

\* "return _ephemeris" by caller t.
ReturnGlobal(t) ==
    /\ tpc[t] = "return"
    /\ tret' = [tret EXCEPT ![t] = _ephemeris]
    /\ tpc' = [tpc EXCEPT ![t] = "done"]
    /\ UNCHANGED <<csv_exists, csv_rows, _ephemeris, loads, tlocal, callVars,
                   forecastVars>>

NextConcurrent ==
    \E t \in Callers :
        \/ TestGlobal(t)
        \/ Construct(t)
        \/ AssignGlobal(t)
        \/ ReturnGlobal(t)

SpecConcurrent == InitConcurrent /\ [][NextConcurrent]_vars

\* C4 (as claimed): when several callers invoke get_ephemeris concurrently
\* before the table is initialised, exactly one load of the data occurs and
\* every caller receives the same, fully populated table instance.
C4_ExactlyOneLoadSameInstance ==
    (csv_exists /\ \A t \in Callers : tpc[t] = "done")
        => /\ loads = 1
           /\ \A t, u \in Callers : tret[t] = tret[u]
           /\ \A t \in Callers : tret[t].data = csv_rows

-----------------------------------------------------------------------------
(* find_aspects_to_natal called on pairs of position sets *)

\* Longitudes of the transiting bodies: the targets and both edges of every
\* tolerance window as seen from 70 degrees, on either side of 0/360.
TransitLongitudes ==
    {Deg(10), Deg(4), Deg(4) - 1, Deg(62), Deg(62) - 1, Deg(78), Deg(78) + 1,
     Deg(70), Deg(160), Deg(190), Deg(182), Deg(250), Deg(258), Deg(258) + 1,
     Deg(340), Deg(333), Deg(333) - 1, Deg(0), Deg(360) - 1}

NatalLongitudes == {Deg(70), Deg(0), Deg(360) - 1}

\* A positions dictionary of the bodies in planets, in that order, at lons.
PositionsAt(planets, lons) ==
    [planet \in Range(planets) |->
        [longitude |-> lons[CHOOSE k \in DOMAIN planets : planets[k] = planet],
         planet    |-> planet]]

TransitSets ==
    {PositionsAt(<<"Mars", "Uranus">>, <<x, y>>) :
        x \in TransitLongitudes, y \in TransitLongitudes}

NatalSets ==
    {PositionsAt(<<"Sun", "Moon">>, <<x, y>>) :
        x \in NatalLongitudes, y \in NatalLongitudes}

\* The caller holds the two position sets; nothing else has run.
InitAspects ==
    /\ csv_exists = FALSE /\ csv_rows = <<>>
    /\ _ephemeris = None
    /\ op = "none" /\ ret = None
    /\ arg \in TransitSets
    /\ natal \in NatalSets
    /\ now = 0 /\ days_ahead = 0 /\ day_offset = 0
    /\ aspects = <<>> /\ upcoming = <<>> /\ fpc = "idle" /\ forecast = <<>>
    /\ tpc = <<>> /\ tlocal = <<>> /\ tret = <<>>
    /\ loads = 0

\* ret = find_aspects_to_natal(current_positions, natal_positions)
CallFindAspects ==
    /\ op = "none"
    /\ op' = "find_aspects_to_natal"
    /\ ret' = find_aspects_to_natal(arg, natal)
    /\ UNCHANGED <<csv_exists, csv_rows, _ephemeris, arg, natal, now,
                   days_ahead, day_offset, aspects, upcoming, fpc, forecast,
                   threadVars, loads>>

NextAspects == CallFindAspects

SpecAspects == InitAspects /\ [][NextAspects]_vars

-----------------------------------------------------------------------------
(* Claims about find_upcoming_transits, checked under Spec *)

AspectNames == {ASPECTS[i].name : i \in 1..Len(ASPECTS)}

\* Every (transit body, aspect name, natal body) triple.
Triples == Range(AllPlanets) \X AspectNames \X Range(AllPlanets)

TextOf(triple) == TransitText(triple[1], triple[2], triple[3])

\* The day offset an entry's "Day +n" names.
DayOf(entry) == CHOOSE d \in 1..days_ahead : DayText(d) = entry.date

\* The positions get_all_positions returns for sampled day d (the table is
\* loaded once a day has been sampled).
PositionsOn(d) == PositionsFrom(_ephemeris, FutureDate(now, d))

\* The triples whose match passes the forecast filter on sampled day d.
PassedOn(d) ==
    LET found == find_aspects_to_natal(PositionsOn(d), natal)
    IN  {<<found[i].transit_planet, found[i].aspect, found[i].natal_planet>> :
            i \in {j \in 1..Len(found) : IsMajorTransit(found[j])}}

\* The triples that pass on some sampled day, and the first such day of each.
PassedTable == [d \in 1..days_ahead |-> PassedOn(d)]

\* C1: the returned list has at most 10 entries, each the text of a triple,
\* and no two entries share a (transit body, aspect name, natal body) triple.
C1_AtMostTenDistinctTriples ==
    fpc = "done"
        => LET text == [t \in Triples |-> TextOf(t)]
               of(i) == {t \in Triples : text[t] = forecast[i].transit}
           IN  /\ Len(forecast) <= 10
               /\ \A i \in 1..Len(forecast) : of(i) # {}
               /\ \A i, j \in 1..Len(forecast) :
                     i # j => of(i) \cap of(j) = {}

\* C1's case: more than 10 distinct triples passed and some passed on two
\* days, so that both the removal of duplicates and the cut to 10 acted.
C1_Witness ==
    /\ fpc = "done"
    /\ Len(forecast) = 10
    /\ Len(RemoveDuplicates(upcoming)) > 10
    /\ Len(upcoming) > Len(RemoveDuplicates(upcoming))

\* The unrounded orb of a found aspect on sampled day d.
TrueOrb(aspect, d) ==
    LET a == CHOOSE c \in Range(ASPECTS) : c.name = aspect.aspect
    IN  check_aspect(PositionsOn(d)[aspect.transit_planet].longitude,
                     natal[aspect.natal_planet].longitude, a)[2]

\* C2 (as claimed): a match found on a sampled day is kept as a candidate if
\* and only if its transit body is an outer planet, its natal body is Sun or
\* Moon, its aspect is a major one and its orb deviation
\* |angularSeparation - targetAngle| is strictly less than 2.0 degrees.
C2_KeptIffMajorAndOrbUnderTwo ==
    (fpc = "scan" /\ day_offset > 1)
        => LET d == day_offset - 1
           IN  \A i \in 1..Len(aspects) :
                  LET m == aspects[i]
                      kept == \E j \in 1..Len(upcoming) :
                                 /\ upcoming[j].date = DayText(d)
                                 /\ upcoming[j].transit =
                                       TransitText(m.transit_planet, m.aspect,
                                                   m.natal_planet)
                  IN  kept <=>
                         /\ m.transit_planet \in
                              {"Jupiter", "Saturn", "Uranus", "Neptune", "Pluto"}
                         /\ m.natal_planet \in {"Sun", "Moon"}
                         /\ m.aspect \in
                              {"Conjunction", "Square", "Opposition", "Trine"}
                         /\ TrueOrb(m, d) < Deg(2)

\* C3: the returned list is ordered by day offset ascending; every entry is
\* for a triple that passed the forecast filter and carries the first sampled
\* day on which it passed; min(10, number of distinct passing triples) are
\* returned, and no triple left out passed earlier than a triple returned.
C3_FirstOccurrencesInDayOrder ==
    fpc = "done"
        => LET passed == PassedTable
               all    == UNION {passed[d] : d \in 1..days_ahead}
               first(t) == Min({d \in 1..days_ahead : t \in passed[d]})
               texts  == {forecast[i].transit : i \in 1..Len(forecast)}
           IN  /\ \A i \in 1..(Len(forecast) - 1) :
                     DayOf(forecast[i]) <= DayOf(forecast[i + 1])
               /\ \A i \in 1..Len(forecast) :
                     \E t \in all : /\ forecast[i].transit = TextOf(t)
                                    /\ DayOf(forecast[i]) = first(t)
               /\ Len(forecast) =
                     IF Cardinality(all) > 10 THEN 10 ELSE Cardinality(all)
               /\ \A t \in all :
                     TextOf(t) \notin texts
                        => \A i \in 1..Len(forecast) :
                              DayOf(forecast[i]) <= first(t)

\* C3's case: more than 10 distinct triples passed, on different days, and a
\* returned triple passed again on a later day.
C3_Witness ==
    /\ fpc = "done"
    /\ Cardinality(UNION {PassedOn(d) : d \in 1..days_ahead}) > 10
    /\ \E i, j \in 1..Len(forecast) :
          DayOf(forecast[i]) < DayOf(forecast[j])
    /\ \E i \in 1..Len(forecast) :
          \E j \in 1..Len(upcoming) :
             /\ upcoming[j].transit = forecast[i].transit
             /\ upcoming[j].date # forecast[i].date

-----------------------------------------------------------------------------
(* Claims about the position functions, checked under SpecPositions *)

\* The table a get_positions call read.
TableRead == _ephemeris.data

\* A table without repeated timestamps.
StrictlyAscending(data) ==
    \A i \in 1..(Len(data) - 1) : data[i].datetime < data[i + 1].datetime

\* The rows between which get_positions interpolated.
BracketOf(data, dt) == Min(Bracketing(data, dt))

\* C5 (as claimed): with the data source missing, get_all_positions returns
\* the fallback positions for all bodies, as it does for an epoch outside the
\* table's range, and does not fail.
C5_MissingSourceFallsBack ==
    (op = "get_all_positions" /\ ~csv_exists)
        => ret = calculate_fallback_positions(arg)

\* C6 (as claimed): on a non-empty sorted table, a table of a single row
\* included, get_positions returns None if and only if the epoch is strictly
\* before the first row or strictly after the last row.
C6_NoDataIffOutOfRange ==
    (op = "get_positions" /\ Len(TableRead) >= 1)
        => ((ret = None) <=>
               (\/ arg < TableRead[1].datetime
                \/ arg > TableRead[Len(TableRead)].datetime))

\* C7 (as claimed): on a sorted table (no timestamp repeated), get_positions
\* at exactly the timestamp of a stored row r returns r's nine longitudes
\* unchanged, whether r is the first, an interior or the last row.
C7_ExactRowUnchanged ==
    (op = "get_positions" /\ StrictlyAscending(TableRead))
        => \A r \in 1..Len(TableRead) :
              TableRead[r].datetime = arg
                 => /\ ret # None
                    /\ \A planet \in Range(TablePlanets) :
                          ret[planet] = TableRead[r][planet]

\* C8: every interpolated longitude is in [0, 360) and lies on the shorter
\* arc between the longitudes of the two bracketing rows: its separation from
\* each endpoint is at most the endpoints' separation, and the two add up to
\* it.
C8_InterpolatedOnShorterArc ==
    (op = "get_positions" /\ ret # None)
        => LET i == BracketOf(TableRead, arg)
           IN  \A planet \in Range(TablePlanets) :
                  LET lon1 == TableRead[i][planet]
                      lon2 == TableRead[i + 1][planet]
                      lon  == ret[planet]
                      span == angle_difference(lon1, lon2)
                  IN  /\ 0 <= lon /\ lon < Deg(360)
                      /\ angle_difference(lon, lon1) <= span
                      /\ angle_difference(lon, lon2) <= span
                      /\ angle_difference(lon, lon1)
                           + angle_difference(lon, lon2) = span

\* C8's case: an interpolation strictly inside a bracket whose Sun
\* longitudes are 350 and 10 degrees, across the wraparound.
C8_Witness ==
    /\ op = "get_positions" /\ ret # None
    /\ LET i == BracketOf(TableRead, arg)
       IN  /\ TableRead[i].datetime < arg /\ arg < TableRead[i + 1].datetime
           /\ TableRead[i]["Sun"] = Deg(350)
           /\ TableRead[i + 1]["Sun"] = Deg(10)
           /\ ret["Sun"] \in {Deg(355), Deg(0), Deg(5)}

\* C9 (as claimed): the positions get_all_positions reports for Sun and Moon
\* carry retrograde = false, from the table and from the fallback alike.
C9_SunMoonCarryFalse ==
    (op = "get_all_positions" /\ ret # Raised)
        => \A planet \in {"Sun", "Moon"} :
              /\ "retrograde" \in DOMAIN ret[planet]
              /\ ret[planet].retrograde = FALSE

\* C9 (amended): Sun and Moon never carry retrograde = true: their fallback
\* positions carry retrograde = false and their tabulated positions carry no
\* retrograde field at all.
C9_SunMoonNeverRetrograde ==
    (op = "get_all_positions" /\ ret # Raised)
        => \A planet \in {"Sun", "Moon"} :
              IF get_positions(TableRead, arg) # None
              THEN "retrograde" \notin DOMAIN ret[planet]
              ELSE /\ "retrograde" \in DOMAIN ret[planet]
                   /\ ret[planet].retrograde = FALSE

\* C9's case: Sun and Moon reported from the table.
C9_Witness ==
    /\ op = "get_all_positions" /\ ret # Raised
    /\ get_positions(TableRead, arg) # None
    /\ ret["Sun"].longitude = get_positions(TableRead, arg)["Sun"]
    /\ DOMAIN ret["Moon"] = {"longitude", "planet"}

\* C10: Pluto's longitude is calculate_pluto_position(dt) whether or not the
\* table has data for dt; each of the other nine bodies has the table's
\* interpolated longitude when the lookup returns data and the fallback
\* longitude only when it returns None.
C10_PlutoFormulaOthersTableFirst ==
    (op = "get_all_positions" /\ ret # Raised)
        => LET look == get_positions(TableRead, arg)
           IN  /\ ret["Pluto"].longitude = calculate_pluto_position(arg)
               /\ \A planet \in Range(TablePlanets) :
                     ret[planet].longitude =
                        IF look # None THEN look[planet]
                                       ELSE MeanLongitude(planet, arg)

\* C10's case: the table has data, and its Jupiter differs from the fallback's.
C10_Witness ==
    /\ op = "get_all_positions" /\ ret # Raised
    /\ get_positions(TableRead, arg) # None
    /\ ret["Jupiter"].longitude # MeanLongitude("Jupiter", arg)
    /\ ret["Pluto"].longitude = calculate_pluto_position(arg)

\* The flag of the row nearer in time to dt within the bracket rows i, i + 1
\* of data: row i's when the interpolation factor (0 when the two rows share
\* a timestamp) is below 0.5, row i + 1's otherwise.
NearerFlag(data, i, dt, planet) ==
    LET elapsed == dt - data[i].datetime
        total   == data[i + 1].datetime - data[i].datetime
    IN  IF total = 0 \/ 2 * elapsed < total
        THEN data[i][RetroKey(planet)]
        ELSE data[i + 1][RetroKey(planet)]

\* C11: in every in-range lookup between rows i and i + 1, the flag returned
\* for each of Mercury, Venus, Mars, Jupiter, Saturn, Uranus and Neptune is row
\* i's when the factor is below 0.5 and row i + 1's otherwise, and that flag is
\* the retrograde value get_all_positions reports for the planet.
C11_FlagFromNearerRow ==
    /\ (op = "get_positions" /\ ret # None)
          => \A planet \in Range(RetroPlanets) :
                ret[RetroKey(planet)] =
                   NearerFlag(TableRead, BracketOf(TableRead, arg), arg, planet)
    /\ (op = "get_all_positions" /\ ret # Raised
          /\ get_positions(TableRead, arg) # None)
          => \A planet \in Range(RetroPlanets) :
                /\ "retrograde" \in DOMAIN ret[planet]
                /\ ret[planet].retrograde =
                      NearerFlag(TableRead, BracketOf(TableRead, arg), arg,
                                 planet)

\* C11's case: get_all_positions halfway between two rows whose Mercury flags
\* differ (factor exactly 0.5), reporting the later row's flag.
C11_Witness ==
    /\ op = "get_all_positions" /\ ret # Raised
    /\ get_positions(TableRead, arg) # None
    /\ LET i == BracketOf(TableRead, arg)
       IN  /\ 2 * (arg - TableRead[i].datetime) =
                 TableRead[i + 1].datetime - TableRead[i].datetime
           /\ TableRead[i].datetime < TableRead[i + 1].datetime
           /\ TableRead[i]["Mercury_retro"] # TableRead[i + 1]["Mercury_retro"]
           /\ ret["Mercury"].retrograde = TableRead[i + 1]["Mercury_retro"]

-----------------------------------------------------------------------------
(* Claims about find_aspects_to_natal, checked under SpecAspects *)

\* The aspect catalog as the documentation tabulates it: name, target angle,
\* orb tolerance.
Catalog ==
    {<<"Conjunction", Deg(0), Deg(8)>>, <<"Sextile", Deg(60), Deg(6)>>,
     <<"Square", Deg(90), Deg(7)>>, <<"Trine", Deg(120), Deg(8)>>,
     <<"Opposition", Deg(180), Deg(8)>>}

\* |angularSeparation(transitLon, natalLon) - targetAngle|, the separation
\* being the shorter way round the circle.
Deviation(transit_lon, natal_lon, target) ==
    LET d   == Abs(transit_lon - natal_lon)
        sep == Min({d, Deg(360) - d})
    IN  Abs(sep - target)

\* The matches emitted for one (transit body, natal body, aspect).
MatchesFor(transit_planet, natal_planet, name) ==
    {i \in DOMAIN ret : /\ ret[i].transit_planet = transit_planet
                        /\ ret[i].natal_planet = natal_planet
                        /\ ret[i].aspect = name}

\* C12: find_aspects_to_natal emits a match for (transit body, natal body,
\* aspect) exactly when the deviation of their angular separation from the
\* catalog entry's target is within its tolerance, for each of the five
\* entries and every body pair (one match each, with that orb), and it emits
\* nothing else.
C12_MatchIffWithinTolerance ==
    op = "find_aspects_to_natal" =>
        /\ \A t \in DOMAIN arg, n \in DOMAIN natal, c \in Catalog :
              LET dev == Deviation(arg[t].longitude, natal[n].longitude, c[2])
                  ms  == MatchesFor(t, n, c[1])
              IN  /\ Cardinality(ms) = IF dev <= c[3] THEN 1 ELSE 0
                  /\ \A i \in ms : ret[i].orb = Round2(dev)
        /\ \A i \in DOMAIN ret :
              /\ ret[i].transit_planet \in DOMAIN arg
              /\ ret[i].natal_planet \in DOMAIN natal
              /\ \E c \in Catalog : c[1] = ret[i].aspect

\* C12's case: Mars at 10 degrees against a natal Sun at 70 degrees matches
\* Sextile with orb 0 and no other entry, while Uranus at 4 degrees matches
\* the same Sun exactly at the Sextile tolerance.
C12_Witness ==
    /\ op = "find_aspects_to_natal"
    /\ arg["Mars"].longitude = Deg(10) /\ natal["Sun"].longitude = Deg(70)
    /\ arg["Uranus"].longitude = Deg(4)
    /\ \E i \in DOMAIN ret :
          /\ ret[i].transit_planet = "Mars" /\ ret[i].natal_planet = "Sun"
          /\ ret[i].aspect = "Sextile" /\ ret[i].orb = 0
          /\ \A j \in DOMAIN ret :
                (ret[j].transit_planet = "Mars" /\ ret[j].natal_planet = "Sun")
                   => j = i
    /\ \E i \in DOMAIN ret :
          /\ ret[i].transit_planet = "Uranus" /\ ret[i].natal_planet = "Sun"
          /\ ret[i].aspect = "Sextile" /\ ret[i].orb = Deg(6)

====
